---- MODULE Spec2Model ----
(***************************************************************************)
(* Model of the transaction core of src/pos_milk_store.py: the catalog,    *)
(* the in-memory cart, checkout and catalog maintenance of POSApp.         *)
(*                                                                         *)
(* The program keeps ONE SQLAlchemy session for its whole life.  `sess' is *)
(* what that session sees (committed rows plus its own uncommitted         *)
(* changes); `db' is what has been committed, i.e. what a second           *)
(* connection or a restart after a crash would read.  session.commit()     *)
(* makes db equal to sess; nothing in the program ever rolls back.         *)
(*                                                                         *)
(* Units: quantities and stocks are counted in halves (1 stands for 0.5,   *)
(* the smallest quantity a sale button adds), prices are whole numbers,    *)
(* and line_total / total are therefore counted in halves of a currency    *)
(* unit (price * quantity-in-halves).                                      *)
(***************************************************************************)
EXTENDS Integers, Sequences, FiniteSets, TLC

\* ---------------------------------------------------------------- bounds
MaxStock   == 2   \* largest stock (in halves) a product starts with
MaxQty     == 2   \* largest accumulated cart quantity (in halves) per product
MaxCommits == 2   \* number of committing operations: checkouts that create
                  \* an Order, successful Add/Updates and confirmed Deletes

\* ------------------------------------------------------- catalog fixture
MilkName  == "Milk (per kg)"
DhaiName  == "Dhai Bhale"
CreamName == "Cream Chaat"
MilkPrice == 150
DhaiPrice == 120

\* The sale tab is built once, at start-up: one button per variant of each
\* product that exists then.  'per kg' products get 0.5 and 1.0, others 1.
Variants(name) == IF name = MilkName THEN {1, 2} ELSE {2}

\* Texts the operator can type into the Add/Update dialogs.
NameInputs  == {"", MilkName, CreamName}
PriceInputs == {"160", "abc"}
StockInputs == {"1", "-1", "x"}

\* float(text): the number typed, or a failure for text that is not a number.
float(s) ==
  CASE s = "160" -> [ok |-> TRUE,  val |-> 160]
    [] s = "1"   -> [ok |-> TRUE,  val |-> 1]
    [] s = "-1"  -> [ok |-> TRUE,  val |-> -1]
    [] OTHER     -> [ok |-> FALSE, val |-> 0]

\* A quantity x is stored as the number of halves it holds.
Halves(x) == 2 * x

VARIABLES
  db,         \* committed rows: [products, orders, items]
  sess,       \* the session's view: committed rows + uncommitted changes
  cart,       \* self.cart, an insertion-ordered dict: <<[pid, qty], ...>>
  cart_keys,  \* self.cart_keys, the product ids shown in the cart listbox
  buttons,    \* products captured by the sale buttons: pid -> name
  result,     \* what the last operation reported to the operator
  receipts,   \* order ids for which receipt_<id>.txt was written
  stock0,     \* history: the stock every product started with
  touched,    \* history: product ids that Add/Update or Delete has targeted
  nEdits      \* history: number of committed Add/Updates and Deletes

vars == <<db, sess, cart, cart_keys, buttons, result, receipts,
          stock0, touched, nEdits>>

\* ------------------------------------------------------------- helpers
Max(S) == CHOOSE x \in S : \A y \in S : y <= x

Range(s) == {s[i] : i \in 1..Len(s)}

Product(name, price, stock) ==
  [name |-> name, price_per_unit |-> price, stock |-> stock]

\* Order(): total defaults to 0.0.
Order(id) == [id |-> id, total |-> 0]

OrderItem(id, order_id, product_id, quantity, line_total) ==
  [id |-> id, order_id |-> order_id, product_id |-> product_id,
   quantity |-> quantity, line_total |-> line_total]

\* INTEGER PRIMARY KEY on SQLite: the new row id is the largest one + 1.
NewId(ids) == IF ids = {} THEN 1 ELSE Max(ids) + 1

\* self.cart.get(pid, 0)
CartGet(c, pid) ==
  IF \E i \in 1..Len(c) : c[i].pid = pid
  THEN (CHOOSE e \in Range(c) : e.pid = pid).qty
  ELSE 0

\* self.cart[pid] = qty : an existing key keeps its place, a new one goes last.
CartPut(c, pid, qty) ==
  IF \E i \in 1..Len(c) : c[i].pid = pid
  THEN [i \in 1..Len(c) |-> IF c[i].pid = pid THEN [pid |-> pid, qty |-> qty] ELSE c[i]]
  ELSE Append(c, [pid |-> pid, qty |-> qty])

\* The new quantity put in place of the pending one.
NewQty_Replaces(c, pid, qty) == qty

\* line 179: self.cart.get(product.id, 0) + qty
NewQty(c, pid, qty) == CartGet(c, pid) + qty

\* One unit taken off the entry instead of the entry being deleted.
CartDel_Decrements(c, pid) ==
  SelectSeq([i \in 1..Len(c) |->
               IF c[i].pid = pid THEN [pid |-> pid, qty |-> c[i].qty - 1] ELSE c[i]],
            LAMBDA e : e.qty > 0)

\* del self.cart[pid]
CartDel(c, pid) == SelectSeq(c, LAMBDA e : e.pid # pid)

RECURSIVE SumLineTotal(_)
SumLineTotal(s) == IF s = <<>> THEN 0 ELSE Head(s).line_total + SumLineTotal(Tail(s))

RECURSIVE SumQuantity(_)
SumQuantity(s) == IF s = <<>> THEN 0 ELSE Head(s).quantity + SumQuantity(Tail(s))

ItemsOfOrder(S, oid) == SelectSeq(S.items, LAMBDA it : it.order_id = oid)
ItemsOfProduct(S, pid) == SelectSeq(S.items, LAMBDA it : it.product_id = pid)

\* update_cart_display: rebuilds cart_keys entry by entry; session.get
\* returns None for a product that no longer exists and p.price_per_unit
\* then raises, leaving the keys of the entries before it.
RECURSIVE DisplayKeys(_, _, _)
DisplayKeys(c, products, i) ==
  IF i > Len(c) THEN <<>>
  ELSE IF c[i].pid \notin DOMAIN products THEN <<>>
  ELSE <<c[i].pid>> \o DisplayKeys(c, products, i + 1)

update_cart_display(c, products) == DisplayKeys(c, products, 1)

\* ------------------------------------------------------------ checkout
\* The stock check left out: every entry is taken as available.
NotEnoughStock_Unchecked(p, qty) == FALSE

\* line 219: `if p.stock < qty'
NotEnoughStock(p, qty) == p.stock < qty

\* The line priced with the start-up price of the product instead of the
\* price the session holds at checkout.
LineTotal_StalePrice(p, qty) ==
  qty * (IF p.name = MilkName THEN MilkPrice
         ELSE IF p.name = DhaiName THEN DhaiPrice ELSE p.price_per_unit)

\* line 222: `line = p.price_per_unit * qty'
LineTotal(p, qty) == p.price_per_unit * qty

\* The quantity taken off the stock twice.
DecrementStock_Twice(p, qty) == [p EXCEPT !.stock = p.stock - qty - qty]

\* line 224: `p.stock -= qty'
DecrementStock(p, qty) == [p EXCEPT !.stock = p.stock - qty]

\* Lines 217-226, from the i-th cart entry on.  S is the session's view,
\* oid the id of the Order committed at line 215, total the running total.
\* The loop stops at the first entry whose product is gone (p is None and
\* p.stock raises AttributeError) or short of stock (showerror, return);
\* what earlier entries wrote stays in the session, uncommitted.
RECURSIVE CheckoutLoop(_, _, _, _, _)
CheckoutLoop(S, c, i, oid, total) ==
  IF i > Len(c)
  THEN [status |-> "ok", pid |-> 0, S |-> S, total |-> total]
  ELSE
    LET pid == c[i].pid
        qty == c[i].qty
    IN IF pid \notin DOMAIN S.products
       THEN [status |-> "AttributeError", pid |-> pid, S |-> S, total |-> total]
       ELSE
         LET p == S.products[pid] IN
         IF NotEnoughStock(p, qty)
         THEN [status |-> "NotEnoughStock", pid |-> pid, S |-> S, total |-> total]
         ELSE
           LET line == LineTotal(p, qty)
               item == OrderItem(Len(S.items) + 1, oid, pid, qty, line)
               S2   == [S EXCEPT !.products[pid] = DecrementStock(p, qty),
                                 !.items = Append(S.items, item)]
           IN CheckoutLoop(S2, c, i + 1, oid, total + line)

\* The empty-cart guard left out.
CartIsEmpty_Never(c) == FALSE

\* line 210: `if not self.cart'
CartIsEmpty(c) == c = <<>>

\* lines 213-214: order = Order(); session.add(order)
AddOrder(S) == [S EXCEPT !.orders = Append(S.orders, Order(Len(S.orders) + 1))]

\* What line 215 commits: everything the session holds, with the new Order.
FirstCommit(S) == AddOrder(S)

\* line 227: order.total = total
SetTotal(S, oid, total) == [S EXCEPT !.orders[oid].total = total]

\* The cart cleared however the checkout ended.
CartAfterCheckout_AlwaysCleared(c, status) == <<>>

\* lines 229-232 run only when the loop completed and save_receipt returned:
\* the cart is cleared there and nowhere else in _checkout.
CartAfterCheckout(c, status) == IF status = "Receipt" THEN <<>> ELSE c

\* The receipt written however the checkout ended.
ReceiptsAfterCheckout_Always(R, status, oid) == R \cup {oid}

\* line 229 and lines 81-83: save_receipt(order) is called after the commit
\* of line 228 only, and writes receipt_<order.id>.txt unless the write fails.
ReceiptsAfterCheckout(R, status, oid) ==
  IF status = "Receipt" THEN R \cup {oid} ELSE R

\* The message a failed checkout shows: "Not enough stock for {p.name}".
Report(status, S, pid) ==
  [kind |-> status,
   name |-> IF status = "NotEnoughStock" THEN S.products[pid].name ELSE ""]

Say(kind) == [kind |-> kind, name |-> ""]

\* ------------------------------------------------------------- state
\* Commits made so far by operations the model bounds: every checkout of a
\* cart with entries adds one Order to the session.
Commits == Len(sess.orders) + nEdits

Init ==
  /\ \E s1, s2 \in 0..MaxStock :
       /\ db = [products |-> (1 :> Product(MilkName, MilkPrice, s1)) @@
                             (2 :> Product(DhaiName, DhaiPrice, s2)),
                orders |-> <<>>, items |-> <<>>]
       /\ stock0 = (1 :> s1) @@ (2 :> s2)
  /\ sess = db
  /\ cart = <<>>
  /\ cart_keys = <<>>
  /\ buttons = (1 :> MilkName) @@ (2 :> DhaiName)
  /\ result = Say("started")
  /\ receipts = {}
  /\ touched = {}
  /\ nEdits = 0

\* ----------------------------------------------------------- actions
\* The cart handler committing the session after it redraws the cart.
StoreAfterCartOp_Commits(D, S) == S

\* Lines 178-207 reach the session only through session.get (line 187),
\* which reads: the committed rows D stay as they are, whatever the session
\* S holds uncommitted.
StoreAfterCartOp(D, S) == D

\* add_to_cart (lines 178-180), reached from a sale button.
AddItem(pid, qty) ==
  /\ NewQty(cart, pid, qty) <= MaxQty
  /\ cart' = CartPut(cart, pid, NewQty(cart, pid, qty))

add_to_cart ==
  /\ \E pid \in DOMAIN buttons : \E qty \in Variants(buttons[pid]) : AddItem(pid, qty)
  /\ cart_keys' = update_cart_display(cart', sess.products)
  /\ result' = IF Len(cart_keys') = Len(cart') THEN Say("ok") ELSE Say("AttributeError")
  /\ db' = StoreAfterCartOp(db, sess)
  /\ UNCHANGED <<sess, buttons, receipts, stock0, touched, nEdits>>

\* _remove_selected (lines 194-202).
RemoveNothing ==
  /\ result' = Say("NoItemSelected")
  /\ UNCHANGED <<cart, cart_keys>>

RemoveEntry ==
  \E idx \in 1..Len(cart_keys) :
    /\ cart' = CartDel(cart, cart_keys[idx])
    /\ cart_keys' = update_cart_display(cart', sess.products)
    /\ result' = IF Len(cart_keys') = Len(cart') THEN Say("removed") ELSE Say("AttributeError")

_remove_selected ==
  /\ RemoveNothing \/ RemoveEntry
  /\ db' = StoreAfterCartOp(db, sess)
  /\ UNCHANGED <<sess, buttons, receipts, stock0, touched, nEdits>>

\* _clear_cart (lines 204-207), the operator having answered yes.
_clear_cart ==
  /\ cart' = <<>>
  /\ cart_keys' = update_cart_display(cart', sess.products)
  /\ result' = Say("ok")
  /\ db' = StoreAfterCartOp(db, sess)
  /\ UNCHANGED <<sess, buttons, receipts, stock0, touched, nEdits>>

\* _checkout (lines 209-232) on an empty cart.
CheckoutEmpty ==
  /\ CartIsEmpty(cart)
  /\ result' = Say("NoItems")
  /\ UNCHANGED <<db, sess, cart, cart_keys, receipts>>

\* _checkout (lines 213-232) on a cart with entries.  receiptOk is whether
\* save_receipt manages to write the file.
CheckoutCart(receiptOk) ==
  /\ ~CartIsEmpty(cart)
  /\ Commits < MaxCommits
  /\ LET S1  == FirstCommit(sess)
         oid == Len(S1.orders)
         r   == CheckoutLoop(S1, cart, 1, oid, 0)
         st  == IF r.status # "ok" THEN r.status
                ELSE IF receiptOk THEN "Receipt" ELSE "ReceiptIOError"
     IN /\ IF r.status = "ok"
           THEN /\ sess' = SetTotal(r.S, oid, r.total)
                /\ db' = sess'
           ELSE /\ sess' = r.S
                /\ db' = S1
        /\ receipts' = ReceiptsAfterCheckout(receipts, st, oid)
        /\ cart' = CartAfterCheckout(cart, st)
        /\ cart_keys' = IF st = "Receipt"
                        THEN update_cart_display(cart', sess'.products)
                        ELSE cart_keys
        /\ result' = Report(st, r.S, r.pid)

_checkout ==
  /\ CheckoutEmpty \/ (\E receiptOk \in BOOLEAN : CheckoutCart(receiptOk))
  /\ UNCHANGED <<buttons, stock0, touched, nEdits>>

\* _add_product (lines 122-138).
AddProductRejected ==
  \E name \in NameInputs, ptxt \in PriceInputs, stxt \in StockInputs :
    /\ name # ""
    /\ ~float(ptxt).ok \/ ~float(stxt).ok
    /\ result' = Say("InvalidInput")
    /\ UNCHANGED <<db, sess, touched, nEdits>>

\* The typed stock added to the stock of an existing product instead of
\* replacing it.
Upsert_Adds(S, name, price, stock) ==
  LET found == {pid \in DOMAIN S.products : S.products[pid].name = name} IN
  IF found # {}
  THEN LET pid == CHOOSE x \in found : TRUE IN
       [S EXCEPT !.products[pid].price_per_unit = price,
                 !.products[pid].stock = S.products[pid].stock + stock]
  ELSE [S EXCEPT !.products =
          S.products @@ (NewId(DOMAIN S.products) :> Product(name, price, stock))]

\* lines 131-136: the product of that name, overwritten or created.
Upsert(S, name, price, stock) ==
  LET found == {pid \in DOMAIN S.products : S.products[pid].name = name} IN
  IF found # {}
  THEN LET pid == CHOOSE x \in found : TRUE IN
       [S EXCEPT !.products[pid].price_per_unit = price,
                 !.products[pid].stock = stock]
  ELSE [S EXCEPT !.products =
          S.products @@ (NewId(DOMAIN S.products) :> Product(name, price, stock))]

UpsertTarget(S, name) ==
  LET found == {pid \in DOMAIN S.products : S.products[pid].name = name} IN
  IF found # {} THEN CHOOSE x \in found : TRUE ELSE NewId(DOMAIN S.products)

UpsertCommitted(name, ptxt, stxt) ==
  /\ name # ""
  /\ float(ptxt).ok /\ float(stxt).ok
  /\ Commits < MaxCommits
  /\ sess' = Upsert(sess, name, float(ptxt).val, Halves(float(stxt).val))
  /\ db' = sess'
  /\ touched' = touched \cup {UpsertTarget(sess, name)}
  /\ nEdits' = nEdits + 1
  /\ result' = Say("saved")

AddProductCommitted ==
  \E name \in NameInputs, ptxt \in PriceInputs, stxt \in StockInputs :
    UpsertCommitted(name, ptxt, stxt)

_add_product ==
  /\ AddProductRejected \/ AddProductCommitted
  /\ UNCHANGED <<cart, cart_keys, buttons, receipts, stock0>>

\* _delete_product (lines 140-151), with no row selected, or with a row
\* selected and the operator having answered yes.  The product tree is
\* rebuilt after every change of the product table, so a selected row is an
\* existing product.
DeleteNothing ==
  /\ result' = Say("NoProductSelected")
  /\ UNCHANGED <<db, sess, touched, nEdits>>

RemoveProduct(S, pid) ==
  [S EXCEPT !.products = [q \in DOMAIN S.products \ {pid} |-> S.products[q]]]

DeleteCommitted(pid) ==
  /\ Commits < MaxCommits
  /\ sess' = RemoveProduct(sess, pid)
  /\ db' = sess'
  /\ touched' = touched \cup {pid}
  /\ nEdits' = nEdits + 1
  /\ result' = Say("deleted")

DeleteConfirmed == \E pid \in DOMAIN sess.products : DeleteCommitted(pid)

_delete_product ==
  /\ DeleteNothing \/ DeleteConfirmed
  /\ UNCHANGED <<cart, cart_keys, buttons, receipts, stock0>>

Next ==
  \/ add_to_cart
  \/ _remove_selected
  \/ _clear_cart
  \/ _checkout
  \/ _add_product
  \/ _delete_product

Spec == Init /\ [][Next]_vars

TypeOK ==
  /\ DOMAIN sess.products \subseteq 1..(2 + MaxCommits)
  /\ Commits <= MaxCommits

\* ------------------------------------------------- steps the claims name
\* A step of _checkout on a cart with entries.
CheckoutRuns == \E receiptOk \in BOOLEAN : CheckoutCart(receiptOk)

\* ... that stopped at an entry (product gone, or short of stock).
CheckoutFails ==
  CheckoutRuns /\ result'.kind \in {"NotEnoughStock", "AttributeError"}

\* ... that reached the commit of line 228.
CheckoutCommits ==
  CheckoutRuns /\ result'.kind \in {"Receipt", "ReceiptIOError"}

\* The Order such a step creates.
NewOrderId == Len(sess.orders) + 1

\* In S, Order oid, if there, has exactly the order items of cart c.
WholeOrder(S, oid, c) ==
  oid \in 1..Len(S.orders) =>
    LET its == ItemsOfOrder(S, oid) IN
    [i \in 1..Len(its) |-> [pid |-> its[i].product_id, qty |-> its[i].quantity]] = c

\* In S, what left the stock of a product is covered by order items of
\* existing orders.
StockBacked(S) ==
  /\ \A pid \in DOMAIN S.products \ touched :
       stock0[pid] - S.products[pid].stock = SumQuantity(ItemsOfProduct(S, pid))
  /\ \A i \in 1..Len(S.items) : S.items[i].order_id \in 1..Len(S.orders)

\* ------------------------------------------------------------- claims
\* C1: a Checkout that fails at a validation step (a product short of stock
\* or gone) leaves the committed store exactly as it was before it.
C1_FailedCheckoutLeavesStore ==
  [][CheckoutFails => db' = db]_vars

\* C2: at every point where committed rows can be read during and after a
\* Checkout (after the commit of line 215, and when the handler returns) an
\* Order that is there has all the order items of its cart, and every stock
\* decrement is covered by an order item of an existing order.
C2_SingleCommit ==
  [][CheckoutRuns =>
       /\ WholeOrder(FirstCommit(sess), NewOrderId, cart)
       /\ WholeOrder(db', NewOrderId, cart)
       /\ StockBacked(FirstCommit(sess))
       /\ StockBacked(db')]_vars

\* C3: every committed Order's total is the sum of line_total over the
\* committed order items of that Order.
C3_TotalIsSumOfLines ==
  \A oid \in 1..Len(db.orders) :
    db.orders[oid].total = SumLineTotal(ItemsOfOrder(db, oid))

\* C4: no product that catalog maintenance has left alone ever has a
\* negative stock, in the session's view or in the committed rows.
C4_StockNeverNegative ==
  \A S \in {sess, db} : \A pid \in DOMAIN S.products \ touched :
    S.products[pid].stock >= 0

\* C4 witness: a product was sold down to nothing and a further checkout
\* was then refused for lack of stock.
C4_Witness ==
  /\ result.kind = "NotEnoughStock"
  /\ \E pid \in DOMAIN db.products \ touched :
       /\ db.products[pid].stock = 0
       /\ stock0[pid] > 0
       /\ CartGet(cart, pid) > 0

\* C5: a Checkout that succeeds lowers the committed stock of each product
\* in the cart by exactly the cart quantity, and of no other product.
C5_StockDecrementExact ==
  [][CheckoutCommits =>
       /\ DOMAIN db'.products = DOMAIN db.products
       /\ \A pid \in DOMAIN db.products :
            db'.products[pid].stock = db.products[pid].stock - CartGet(cart, pid)]_vars

\* C6: a Checkout that fails, an Add/Update of another product and a Delete
\* of another product neither lower a product's committed stock nor add a
\* committed order item for it.
Untouched(pid) ==
  /\ pid \in DOMAIN db.products /\ pid \in DOMAIN db'.products
  /\ db'.products[pid].stock >= db.products[pid].stock
  /\ ItemsOfProduct(db', pid) = ItemsOfProduct(db, pid)

C6_StockLoweredOnlyBySale ==
  [][/\ CheckoutFails => \A pid \in DOMAIN db.products : Untouched(pid)
     /\ \A name \in NameInputs, ptxt \in PriceInputs, stxt \in StockInputs :
          UpsertCommitted(name, ptxt, stxt) =>
            \A pid \in DOMAIN db.products \ {UpsertTarget(sess, name)} : Untouched(pid)
     /\ \A del \in DOMAIN sess.products :
          DeleteCommitted(del) =>
            \A pid \in DOMAIN db.products \ {del} : Untouched(pid)]_vars

\* C7: a Checkout of a cart with an entry whose product no longer exists
\* reports that the product was not found and changes nothing: no Order, no
\* order item, no stock change, the cart as it was.
C7_DeletedProductRejected ==
  [][(CheckoutRuns /\ \E i \in 1..Len(cart) : cart[i].pid \notin DOMAIN sess.products) =>
       /\ result'.kind = "ProductNotFoundError"
       /\ db' = db
       /\ sess' = sess
       /\ cart' = cart]_vars

\* C8: a Checkout refused for lack of stock leaves the cart entries and
\* their quantities as they were, and the message names a product of the
\* cart whose stock is below the quantity asked for.
C8_RefusalKeepsCart ==
  [][(CheckoutRuns /\ result'.kind = "NotEnoughStock") =>
       /\ cart' = cart
       /\ \E i \in 1..Len(cart) :
            /\ cart[i].pid \in DOMAIN sess.products
            /\ sess.products[cart[i].pid].name = result'.name
            /\ sess.products[cart[i].pid].stock < cart[i].qty]_vars

\* C8 witness: a two-entry cart was refused for its second entry.
C8_Witness ==
  /\ result.kind = "NotEnoughStock"
  /\ Len(cart) = 2
  /\ cart[2].pid \in DOMAIN sess.products
  /\ result.name = sess.products[cart[2].pid].name

\* C9: Checkout on an empty cart reports that there are no items and leaves
\* products, orders, order items (committed and in the session) and the
\* receipts untouched, each time it is tried.
C9_EmptyCheckoutTouchesNothing ==
  [][(_checkout /\ cart = <<>>) =>
       /\ result'.kind = "NoItems"
       /\ db' = db
       /\ sess' = sess
       /\ receipts' = receipts
       /\ cart' = <<>>]_vars

\* C9 witness: an empty-cart checkout was turned away after a sale.
C9_Witness ==
  /\ result.kind = "NoItems"
  /\ cart = <<>>
  /\ Len(db.orders) > 0

\* C10: an order item's line_total is its quantity times the price its
\* product has when the Checkout creates it (the session's price at that
\* step, whatever it was when the entry was added), and no later step
\* changes an order item or an Order's total.
C10_LineTotalIsSnapshot ==
  [][/\ CheckoutRuns =>
          \A i \in (Len(sess.items) + 1)..Len(sess'.items) :
            LET it == sess'.items[i] IN
            it.line_total = it.quantity * sess.products[it.product_id].price_per_unit
     /\ SubSeq(sess'.items, 1, Len(sess.items)) = sess.items
     /\ SubSeq(db'.items, 1, Len(db.items)) = db.items
     /\ SubSeq(sess'.orders, 1, Len(sess.orders)) = sess.orders
     /\ SubSeq(db'.orders, 1, Len(db.orders)) = db.orders]_vars

\* C10 witness: a committed order item whose product has since been given
\* another price.
C10_Witness ==
  \E i \in 1..Len(db.items) :
    LET it == db.items[i] IN
    /\ it.product_id \in DOMAIN db.products
    /\ it.line_total # it.quantity * db.products[it.product_id].price_per_unit
    /\ it.line_total > 0

\* C11: a Checkout that succeeds adds exactly one Order and, for it, one
\* order item per cart entry with that entry's quantity, in cart order; and
\* no step other than a Checkout that succeeds adds an order item, to the
\* session or to the committed rows.
NewItems(S, T) == SubSeq(T.items, Len(S.items) + 1, Len(T.items))

C11_ItemsOnlyFromSuccessfulCheckout ==
  [][/\ CheckoutCommits =>
          /\ Len(sess'.orders) = Len(sess.orders) + 1
          /\ Len(db'.orders) = Len(db.orders) + 1
          /\ [i \in 1..Len(NewItems(sess, sess')) |->
                [pid |-> NewItems(sess, sess')[i].product_id,
                 qty |-> NewItems(sess, sess')[i].quantity,
                 oid |-> NewItems(sess, sess')[i].order_id]]
             = [i \in 1..Len(cart) |->
                [pid |-> cart[i].pid, qty |-> cart[i].qty, oid |-> NewOrderId]]
          /\ NewItems(db, db') = NewItems(sess, sess')
     /\ ~CheckoutCommits =>
          /\ Len(sess'.items) = Len(sess.items)
          /\ Len(db'.items) = Len(db.items)]_vars

\* C12: an Add/Update given a negative price or a negative stock is refused
\* and leaves the catalog as it was: the handler never writes and commits a
\* product from such input.
C12_NegativeInputRefused ==
  [][\A name \in NameInputs, ptxt \in PriceInputs, stxt \in StockInputs :
       (/\ float(ptxt).ok /\ float(stxt).ok
        /\ float(ptxt).val < 0 \/ float(stxt).val < 0)
       => ~UpsertCommitted(name, ptxt, stxt)]_vars

\* C13: an Add/Update with the name of an existing product gives that
\* product, under the id it had, the typed price and stock (not a sum); with
\* a new name it adds one product; it leaves every other product as it was;
\* what it commits is the catalog the session holds; and after every step
\* no two products have the same name.
UniqueNames(S) ==
  \A p, q \in DOMAIN S.products :
    S.products[p].name = S.products[q].name => p = q

C13_UpsertOverwrites ==
  [][/\ UniqueNames(sess') /\ UniqueNames(db')
     /\ nEdits' # nEdits =>
        \A name \in NameInputs, ptxt \in PriceInputs, stxt \in StockInputs :
          UpsertCommitted(name, ptxt, stxt) =>
            LET old   == sess.products
                new   == sess'.products
                found == {pid \in DOMAIN old : old[pid].name = name}
                typed == Product(name, float(ptxt).val, Halves(float(stxt).val))
            IN /\ found # {} =>
                    /\ DOMAIN new = DOMAIN old
                    /\ \A pid \in found : new[pid] = typed
               /\ found = {} =>
                    /\ Cardinality(DOMAIN new) = Cardinality(DOMAIN old) + 1
                    /\ DOMAIN old \subseteq DOMAIN new
                    /\ \A pid \in DOMAIN new \ DOMAIN old : new[pid] = typed
               /\ \A q \in DOMAIN old \ found : new[q] = old[q]
               /\ db'.products = new]_vars

\* C13 witness: Milk, which started with a stock of 0.5, has just been saved
\* under its id with price 160 and stock 1.0.
C13_Witness ==
  /\ result.kind = "saved"
  /\ 1 \in DOMAIN db.products
  /\ db.products[1] = Product(MilkName, 160, 2)
  /\ stock0[1] = 1

\* C14: adding qty of a product leaves the cart with exactly one entry for
\* it, holding the quantity that was pending plus qty, and leaves the other
\* entries and their order as they were; and between two additions nothing
\* changes the pending quantity of a product except the removal of its whole
\* entry.
EntriesOf(c, pid) == {i \in 1..Len(c) : c[i].pid = pid}

C15_CartOpsLeaveStore ==
  [][(add_to_cart \/ _remove_selected \/ _clear_cart) =>
       /\ db' = db
       /\ sess' = sess
       /\ receipts' = receipts]_vars

\* C15 witness: a cart operation has run while the session held writes of a
\* failed checkout that are not committed.
C15_Witness ==
  /\ result.kind = "ok"
  /\ db.items # sess.items
  /\ db.products # sess.products

\* C16: removing the selected cart row deletes the whole entry of that
\* product, whatever its quantity, and leaves the other entries, their
\* quantities and their order as they were; with no row selected the handler
\* warns and leaves the cart as it was.  Every row that can be selected
\* stands for a pending entry.
C16_RemoveWholeEntry ==
  [][/\ \A i \in 1..Len(cart_keys') :
          i <= Len(cart') /\ cart_keys'[i] = cart'[i].pid
     /\ _remove_selected =>
          \/ /\ result'.kind = "NoItemSelected"
             /\ cart' = cart
          \/ /\ result'.kind # "NoItemSelected"
             /\ \E idx \in 1..Len(cart_keys) :
                  LET p == cart_keys[idx] IN
                  /\ EntriesOf(cart, p) # {}
                  /\ EntriesOf(cart', p) = {}
                  /\ Len(cart') = Len(cart) - 1
                  /\ cart' = SelectSeq(cart, LAMBDA e : e.pid # p)]_vars

\* C16 witness: an entry was removed from the cart and the Dhai Bhale entry,
\* still shown, is what is left.
C16_Witness ==
  /\ result.kind = "removed"
  /\ cart = <<[pid |-> 2, qty |-> 2]>>
  /\ cart_keys = <<2>>

\* C17: within one Checkout no Order is created, no stock is decremented and
\* no order item is created before every cart entry has been resolved and
\* has passed the stock check: a Checkout that stops at an entry has written
\* nothing to the session.
C17_ValidationBeforeWrites ==
  [][CheckoutFails =>
       /\ sess'.orders = sess.orders
       /\ sess'.items = sess.items
       /\ sess'.products = sess.products]_vars

\* C18: a receipt is only ever written by a Checkout that has committed, for
\* the Order that Checkout created and under its id, when that Order, all
\* the order items of the cart, its total and the stock decrements are
\* committed and nothing of them is left uncommitted; a Checkout that
\* completes writes one; no receipt is written twice or removed; a Checkout
\* that fails writes none.
C18_ReceiptAfterCommit ==
  [][/\ receipts \subseteq receipts'
     /\ receipts' # receipts =>
          /\ CheckoutCommits
          /\ NewOrderId \notin receipts
          /\ receipts' = receipts \cup {NewOrderId}
          /\ NewOrderId \in 1..Len(db'.orders)
          /\ WholeOrder(db', NewOrderId, cart)
          /\ db'.orders[NewOrderId].total = SumLineTotal(ItemsOfOrder(db', NewOrderId))
          /\ db' = sess'
     /\ (CheckoutRuns /\ result'.kind = "Receipt") => NewOrderId \in receipts'
     /\ CheckoutFails => receipts' = receipts]_vars

\* C18 witness: the first checkout was refused and has no receipt, the
\* second went through and has one.
C18_Witness ==
  /\ result.kind = "Receipt"
  /\ receipts = {2}
  /\ Len(db.orders) = 2

\* C19: when a Checkout that has committed its Order ends, the cart is
\* empty, whether or not the receipt could be written.
C19_CartEmptyAfterCommit ==
  [][CheckoutCommits => cart' = <<>>]_vars

\* C20: for every product that Add/Update and Delete have left alone, the
\* stock it started with minus its committed stock is the sum of the
\* quantities of the committed order items that reference it; the same
\* holds of the session's view.
C20_StockConservation ==
  \A S \in {db, sess} : \A pid \in DOMAIN S.products \ touched :
    stock0[pid] - S.products[pid].stock = SumQuantity(ItemsOfProduct(S, pid))

\* C20 witness: Milk, left alone by catalog maintenance, has two committed
\* order items, the first one written by a checkout that was refused.
C20_Witness ==
  /\ 1 \in DOMAIN db.products \ touched
  /\ Len(ItemsOfProduct(db, 1)) = 2
  /\ db.orders[1].total = 0
====
